---------------------------- MODULE Spec2Model ----------------------------
(***************************************************************************)
(* Model of include/eos/render/utils.hpp (eos::render):                    *)
(*   - clip_to_screen_space / screen_to_clip_space (window transform),     *)
(*   - get_max_possible_mipmaps_num, is_power_of_two,                      *)
(*   - Texture::create_mipmapped_texture and the Texture members.          *)
(*                                                                         *)
(* Float values are modelled as exact rationals <<num, den>>; cv::Mat is   *)
(* modelled by its header (cols, rows, channels, depth) plus a tag `px`    *)
(* that names the source image its pixels were computed from.              *)
(***************************************************************************)
EXTENDS Integers, Sequences, FiniteSets, TLC

(* ----------------------------- bounds --------------------------------- *)
\* largest width/height of a non-empty source image
MaxDim == 4
\* largest explicitly requested mipmapsNum (0 = auto)
MaxLevels == 3
\* number of create_mipmapped_texture calls made on one Texture object
MaxCalls == 2
\* cap on the counter of the do-while loop of get_max_possible_mipmaps_num
MaxIter == 6
\* clip coordinates are k / CoordDen for k in -MaxCoord .. MaxCoord
MaxCoord == 8
CoordDen == 4
\* largest screen width / height
MaxScreen == 4

VARIABLES
    \* ---- Texture object (utils.hpp:154-159)
    mipmaps,        \* std::vector<cv::Mat> mipmaps
    widthLog,       \* unsigned char widthLog
    heightLog,      \* unsigned char heightLog
    mipmaps_num,    \* unsigned int mipmaps_num (private)
    \* ---- frame of create_mipmapped_texture (utils.hpp:110-152)
    pc,             \* position of the call
    image,          \* parameter cv::Mat image (overwritten by the conversions)
    mipmapsNum,     \* parameter unsigned int mipmapsNum
    currWidth,      \* int currWidth
    currHeight,     \* int currHeight
    i,              \* loop variable int i
    \* ---- frame of get_max_possible_mipmaps_num (utils.hpp:83-97)
    size,           \* unsigned int size
    gm_mipmapsNum,  \* local unsigned int mipmapsNum of get_max_possible_mipmaps_num
    \* ---- what the caller of create_mipmapped_texture observes
    source,         \* the cv::Mat as the caller passed it
    requested,      \* the mipmapsNum the caller passed
    outcome,        \* how the call ended: "ok", or the exception it threw
    calls,          \* number of calls started on this Texture
    base,           \* mipmaps.size() when the current call was entered
    lastOk,         \* the most recent call that returned normally
    \* ---- coordinate mapper (utils.hpp:48-80)
    mpc,            \* position of the mapper scenario
    clip_coordinates,   \* argument of clip_to_screen_space
    screen_width,
    screen_height,
    screen_coordinates, \* result of clip_to_screen_space, argument of screen_to_clip_space
    clip_back       \* result of screen_to_clip_space

texVars == <<mipmaps, widthLog, heightLog, mipmaps_num>>
frameVars == <<pc, image, mipmapsNum, currWidth, currHeight, i, size, gm_mipmapsNum>>
obsVars == <<source, requested, outcome, calls, base, lastOk>>
mapVars == <<mpc, clip_coordinates, screen_width, screen_height, screen_coordinates, clip_back>>
vars == <<texVars, frameVars, obsVars, mapVars>>

(* ------------------------- exact arithmetic --------------------------- *)
Abs(x) == IF x < 0 THEN -x ELSE x

RECURSIVE Gcd(_, _)
Gcd(a, b) == IF b = 0 THEN a ELSE Gcd(b, a % b)

\* a rational in lowest terms with a positive denominator
Rat(n, d) ==
    LET s == IF d < 0 THEN -1 ELSE 1
        g == Gcd(Abs(n), Abs(d))
    IN  <<(s * n) \div g, (s * d) \div g>>

FromInt(n) == <<n, 1>>
RatAdd(a, b) == Rat(a[1] * b[2] + b[1] * a[2], a[2] * b[2])
RatSub(a, b) == Rat(a[1] * b[2] - b[1] * a[2], a[2] * b[2])
RatMul(a, b) == Rat(a[1] * b[1], a[2] * b[2])
RatDiv(a, b) == Rat(a[1] * b[2], a[2] * b[1])

(* ------------------------- coordinate mapper -------------------------- *)
\* clip_to_screen_space with the flip of y forgotten
clip_to_screen_space_noflip(p, w, h) ==
    LET x_ss == RatMul(RatAdd(p[1], FromInt(1)), RatDiv(FromInt(w), FromInt(2)))
        y_ss == RatMul(RatAdd(p[2], FromInt(1)), RatDiv(FromInt(h), FromInt(2)))
    IN  <<x_ss, y_ss>>

\* utils.hpp:48-53
clip_to_screen_space(p, w, h) ==
    LET x_ss == RatMul(RatAdd(p[1], FromInt(1)), RatDiv(FromInt(w), FromInt(2)))
        y_ss == RatSub(FromInt(h),
                       RatMul(RatAdd(p[2], FromInt(1)), RatDiv(FromInt(h), FromInt(2))))
    IN  <<x_ss, y_ss>>

\* screen_to_clip_space with y_cs *= -1.0f forgotten
screen_to_clip_space_noflip(p, w, h) ==
    LET x_cs == RatSub(RatDiv(p[1], RatDiv(FromInt(w), FromInt(2))), FromInt(1))
        y_cs == RatSub(RatDiv(p[2], RatDiv(FromInt(h), FromInt(2))), FromInt(1))
    IN  <<x_cs, y_cs>>

\* utils.hpp:74-80
screen_to_clip_space(p, w, h) ==
    LET x_cs == RatSub(RatDiv(p[1], RatDiv(FromInt(w), FromInt(2))), FromInt(1))
        y_cs == RatSub(RatDiv(p[2], RatDiv(FromInt(h), FromInt(2))), FromInt(1))
    IN  <<x_cs, RatMul(y_cs, FromInt(-1))>>

(* --------------------------- cv::Mat headers -------------------------- *)
\* cv::Mat as the code reads it: cols, rows, channels(), depth(); px names the
\* source image (by the number of the call that passed it) the pixels derive from
Mat(c, r, ch, d, p) == [cols |-> c, rows |-> r, channels |-> ch, depth |-> d, px |-> p]

\* a default-constructed cv::Mat (what a failed image load yields): 0x0, type 0
EmptyMat(p) == Mat(0, 0, 1, "8U", p)

\* channel counts and depths of the source images passed by callers
Channels == {1, 3, 4}
Depths == {"8U", "32F"}

\* the images a caller may pass in call number p
Sources(p) ==
    {EmptyMat(p)} \cup
    {Mat(c, r, ch, d, p) : c \in 1..MaxDim, r \in 1..MaxDim, ch \in Channels, d \in Depths}

\* the frame of a function that is not executing
NoMat == Mat(0, 0, 0, "none", 0)

\* utils.hpp:155,159: the members have no initialiser; this marks "never written"
Indeterminate == -1

(* --------------------------- pure helpers ----------------------------- *)
\* std::max, utils.hpp:86
std_max(a, b) == IF a > b THEN a ELSE b

\* x >> 1 on a non-negative value, utils.hpp:92,146,148
shr1(x) == x \div 2

\* operator& on two's-complement ints of any width (-1 is all ones), utils.hpp:101
RECURSIVE BitAnd(_, _)
BitAnd(a, b) ==
    IF a = 0 \/ b = 0 THEN 0
    ELSE IF a = -1 THEN b
    ELSE IF b = -1 THEN a
    ELSE (a % 2) * (b % 2) + 2 * BitAnd(a \div 2, b \div 2)

\* utils.hpp:99-102
is_power_of_two(x) == BitAnd(x, x - 1) = 0

\* utils.hpp:112: mipmapsNum == 0 ? get_max_possible_mipmaps_num(...) : mipmapsNum
IsAuto(n) == n = 0

\* the loop condition off by one: i <= this->mipmaps_num
for_cond_le(k, n) == k <= n

\* utils.hpp:134: the loop condition i < this->mipmaps_num
for_cond(k, n) == k < n

\* utils.hpp:145-148: if (curr > 1) curr >>= 1
halve(x) == IF x > 1 THEN shr1(x) ELSE x

\* largest k with 2^k <= x, for x >= 1
RECURSIVE ilog2(_)
ilog2(x) == IF x <= 1 THEN 0 ELSE 1 + ilog2(x \div 2)

\* utils.hpp:150-151: (uchar)(std::log(x) / CV_LOG2 + 0.0001f) for x >= 1.
\* log2(x) + 0.0001 reaches k+1 exactly when x >= 2^(k+1) * 2^(-0.0001), that is
\* when (2^(k+1) - x) / 2^(k+1) <= 1 - 2^(-0.0001) = 0.0000693..., here in
\* millionths; the cast to unsigned char keeps the low 8 bits.
log2_uchar(x) ==
    LET k == ilog2(x)
        nudged == IF (2^(k + 1) - x) * 1000000 <= 69 * 2^(k + 1) THEN k + 1 ELSE k
    IN  nudged % 256

(* ------------------------------ Texture -------------------------------- *)
\* no call is executing: the frames hold nothing
NoFrame ==
    /\ image = NoMat /\ mipmapsNum = 0 /\ currWidth = 0 /\ currHeight = 0 /\ i = 0
    /\ size = 0 /\ gm_mipmapsNum = 0

\* utils.hpp:104-160: a Texture right after construction
InitTexture ==
    /\ mipmaps = <<>>
    /\ widthLog = Indeterminate
    /\ heightLog = Indeterminate
    /\ mipmaps_num = Indeterminate
    /\ pc = "idle"
    /\ NoFrame
    /\ source = NoMat /\ requested = 0 /\ outcome = "none" /\ calls = 0 /\ base = 0
    /\ lastOk = [levels |-> 0, level0 |-> NoMat]

\* the mapper is not exercised while the Texture is
MapperIdle ==
    /\ mpc = "off"
    /\ clip_coordinates = <<FromInt(0), FromInt(0)>>
    /\ screen_width = 1 /\ screen_height = 1
    /\ screen_coordinates = <<FromInt(0), FromInt(0)>>
    /\ clip_back = <<FromInt(0), FromInt(0)>>

\* utils.hpp:110-112, 85-86: the caller passes img and n; with n = 0 control enters
\* get_max_possible_mipmaps_num(image.cols, image.rows)
Call(img, n) ==
    /\ pc = "idle"
    /\ calls < MaxCalls
    /\ calls' = calls + 1
    /\ image' = img /\ mipmapsNum' = n
    /\ source' = img /\ requested' = n /\ outcome' = "running"
    /\ base' = Len(mipmaps)
    /\ IF IsAuto(n)
       THEN /\ gm_mipmapsNum' = 1
            /\ size' = std_max(img.cols, img.rows)
            /\ pc' = "gm_if"
            /\ UNCHANGED mipmaps_num
       ELSE /\ mipmaps_num' = n
            /\ pc' = "check"
            /\ UNCHANGED <<size, gm_mipmapsNum>>
    /\ UNCHANGED <<mipmaps, widthLog, heightLog, currWidth, currHeight, i, lastOk, mapVars>>

\* utils.hpp:88-89: if (size == 1) return 1;
GmReturnOne ==
    /\ pc = "gm_if"
    /\ size = 1
    /\ mipmaps_num' = 1
    /\ pc' = "check"
    /\ UNCHANGED <<mipmaps, widthLog, heightLog, image, mipmapsNum, currWidth, currHeight,
                   i, size, gm_mipmapsNum, obsVars, mapVars>>

\* utils.hpp:88, 91: size != 1, control enters the do-while
GmEnterLoop ==
    /\ pc = "gm_if"
    /\ size # 1
    /\ pc' = "gm_do"
    /\ UNCHANGED <<texVars, image, mipmapsNum, currWidth, currHeight, i, size,
                   gm_mipmapsNum, obsVars, mapVars>>

\* utils.hpp:91-96: one pass of do { size >>= 1; mipmapsNum++; } while (size != 1);
\* and the return of mipmapsNum into this->mipmaps_num (line 112) when it ends
GmDo ==
    /\ pc = "gm_do"
    /\ gm_mipmapsNum < MaxIter
    /\ size' = shr1(size)
    /\ gm_mipmapsNum' = gm_mipmapsNum + 1
    /\ IF size' # 1
       THEN pc' = "gm_do" /\ UNCHANGED mipmaps_num
       ELSE pc' = "check" /\ mipmaps_num' = gm_mipmapsNum'
    /\ UNCHANGED <<mipmaps, widthLog, heightLog, image, mipmapsNum, currWidth, currHeight,
                   i, obsVars, mapVars>>

\* utils.hpp:122-128: the exception leaves the function; members keep their values
ThrowInvalidDimensions ==
    /\ pc = "check"
    /\ mipmaps_num > 1
    /\ ~is_power_of_two(image.cols) \/ ~is_power_of_two(image.rows)
    /\ pc' = "thrown"
    /\ outcome' = "InvalidDimensions"
    /\ UNCHANGED <<texVars, image, mipmapsNum, currWidth, currHeight, i, size,
                   gm_mipmapsNum, source, requested, calls, base, lastOk, mapVars>>

\* utils.hpp:122-128: the check passes or is skipped
PassCheck ==
    /\ pc = "check"
    /\ ~(/\ mipmaps_num > 1
         /\ ~is_power_of_two(image.cols) \/ ~is_power_of_two(image.rows))
    /\ pc' = "convertTo"
    /\ UNCHANGED <<texVars, image, mipmapsNum, currWidth, currHeight, i, size,
                   gm_mipmapsNum, obsVars, mapVars>>

\* utils.hpp:129: image.convertTo(image, CV_8UC4) changes the depth and keeps the
\* channel count (convertTo takes only the depth of its type argument)
ConvertTo ==
    /\ pc = "convertTo"
    /\ image' = [image EXCEPT !.depth = "8U"]
    /\ pc' = "cvtColor"
    /\ UNCHANGED <<texVars, mipmapsNum, currWidth, currHeight, i, size,
                   gm_mipmapsNum, obsVars, mapVars>>

\* utils.hpp:109, 129-130: a cv::Exception of the conversion leaves the function
ConversionThrows ==
    /\ pc \in {"convertTo", "cvtColor"}
    /\ pc' = "thrown"
    /\ outcome' = "cv::Exception"
    /\ UNCHANGED <<texVars, image, mipmapsNum, currWidth, currHeight, i, size,
                   gm_mipmapsNum, source, requested, calls, base, lastOk, mapVars>>

\* utils.hpp:130-133: cv::cvtColor(image, image, CV_BGR2BGRA) takes a 3- or 4-channel
\* image and yields 4 channels; then currWidth, currHeight and i are set
CvtColor ==
    /\ pc = "cvtColor"
    /\ image.channels \in {3, 4}
    /\ image' = [image EXCEPT !.channels = 4]
    /\ currWidth' = image.cols
    /\ currHeight' = image.rows
    /\ i' = 0
    /\ pc' = "for"
    /\ UNCHANGED <<texVars, mipmapsNum, size, gm_mipmapsNum, obsVars, mapVars>>

\* utils.hpp:134-138, 145-149: the pass with i == 0
PushImage ==
    /\ pc = "for"
    /\ for_cond(i, mipmaps_num)
    /\ i = 0
    /\ mipmaps' = Append(mipmaps, image)
    /\ currWidth' = halve(currWidth)
    /\ currHeight' = halve(currHeight)
    /\ i' = i + 1
    /\ UNCHANGED <<widthLog, heightLog, mipmaps_num, pc, image, mipmapsNum, size,
                   gm_mipmapsNum, obsVars, mapVars>>

\* utils.hpp:139-149: the pass with i > 0; cv::resize needs a non-empty source and
\* target size, and fills currMipMap from mipmaps[i - 1] (mipmaps[i] counting from 1)
Resize ==
    /\ pc = "for"
    /\ for_cond(i, mipmaps_num)
    /\ i # 0
    /\ mipmaps[i].cols > 0 /\ mipmaps[i].rows > 0
    /\ currWidth > 0 /\ currHeight > 0
    /\ mipmaps' = Append(mipmaps, Mat(currWidth, currHeight, 4, "8U", mipmaps[i].px))
    /\ currWidth' = halve(currWidth)
    /\ currHeight' = halve(currHeight)
    /\ i' = i + 1
    /\ UNCHANGED <<widthLog, heightLog, mipmaps_num, pc, image, mipmapsNum, size,
                   gm_mipmapsNum, obsVars, mapVars>>

\* utils.hpp:109, 140-141: a cv::Exception of cv::Mat / cv::resize leaves the function
ResizeThrows ==
    /\ pc = "for"
    /\ for_cond(i, mipmaps_num)
    /\ i # 0
    /\ pc' = "thrown"
    /\ outcome' = "cv::Exception"
    /\ UNCHANGED <<texVars, image, mipmapsNum, currWidth, currHeight, i, size,
                   gm_mipmapsNum, source, requested, calls, base, lastOk, mapVars>>

\* utils.hpp:134, 150-152: the loop ends, widthLog and heightLog are set, and the
\* function returns
ComputeLogs ==
    /\ pc = "for"
    /\ ~for_cond(i, mipmaps_num)
    /\ widthLog' = log2_uchar(mipmaps[1].cols)
    /\ heightLog' = log2_uchar(mipmaps[1].rows)
    /\ pc' = "returned"
    /\ outcome' = "ok"
    /\ lastOk' = [levels |-> mipmaps_num, level0 |-> image]
    /\ UNCHANGED <<mipmaps, mipmaps_num, image, mipmapsNum, currWidth, currHeight, i, size,
                   gm_mipmapsNum, source, requested, calls, base, mapVars>>

\* utils.hpp:110-152: the frame is gone once the caller has seen the call end
Leave ==
    /\ pc \in {"returned", "thrown"}
    /\ pc' = "idle"
    /\ image' = NoMat /\ mipmapsNum' = 0 /\ currWidth' = 0 /\ currHeight' = 0 /\ i' = 0
    /\ size' = 0 /\ gm_mipmapsNum' = 0
    /\ source' = NoMat /\ requested' = 0 /\ outcome' = "none" /\ base' = 0
    /\ UNCHANGED <<texVars, calls, lastOk, mapVars>>

Init == InitTexture /\ MapperIdle

Next ==
    \/ \E img \in Sources(calls + 1), n \in 0..MaxLevels : Call(img, n)
    \/ GmReturnOne
    \/ GmEnterLoop
    \/ GmDo
    \/ ThrowInvalidDimensions
    \/ PassCheck
    \/ ConvertTo
    \/ ConversionThrows
    \/ CvtColor
    \/ PushImage
    \/ Resize
    \/ ResizeThrows
    \/ ComputeLogs
    \/ Leave

Spec == Init /\ [][Next]_vars

(* ---------------------- a single call, fresh Texture ------------------- *)
\* the first call made on a Texture
FreshCall(img, n) == calls = 0 /\ Call(img, n)

NextFresh ==
    \/ \E img \in Sources(1), n \in 0..MaxLevels : FreshCall(img, n)
    \/ GmReturnOne
    \/ GmEnterLoop
    \/ GmDo
    \/ ThrowInvalidDimensions
    \/ PassCheck
    \/ ConvertTo
    \/ ConversionThrows
    \/ CvtColor
    \/ PushImage
    \/ Resize
    \/ ResizeThrows
    \/ ComputeLogs
    \/ Leave

SpecFresh == Init /\ [][NextFresh]_vars

(* --------------------------- mapper scenario --------------------------- *)
\* the clip-space points tried: both coordinates k / CoordDen, inside and outside [-1, 1]
ClipPoints ==
    {<<Rat(a, CoordDen), Rat(b, CoordDen)>> : a \in -MaxCoord..MaxCoord, b \in -MaxCoord..MaxCoord}

InitCoord ==
    /\ InitTexture
    /\ mpc = "start"
    /\ clip_coordinates \in ClipPoints
    /\ screen_width \in 1..MaxScreen
    /\ screen_height \in 1..MaxScreen
    /\ screen_coordinates = <<FromInt(0), FromInt(0)>>
    /\ clip_back = <<FromInt(0), FromInt(0)>>

\* a call of clip_to_screen_space (utils.hpp:48-53)
ClipToScreen ==
    /\ mpc = "start"
    /\ screen_coordinates' = clip_to_screen_space(clip_coordinates, screen_width, screen_height)
    /\ mpc' = "screen"
    /\ UNCHANGED <<texVars, frameVars, obsVars, clip_coordinates, screen_width,
                   screen_height, clip_back>>

\* a call of screen_to_clip_space on that result (utils.hpp:74-80)
ScreenToClip ==
    /\ mpc = "screen"
    /\ clip_back' = screen_to_clip_space(screen_coordinates, screen_width, screen_height)
    /\ mpc' = "clip"
    /\ UNCHANGED <<texVars, frameVars, obsVars, clip_coordinates, screen_width,
                   screen_height, screen_coordinates>>

NextCoord == ClipToScreen \/ ScreenToClip

SpecCoord == InitCoord /\ [][NextCoord]_vars

(* ------------------------- vocabulary of the claims -------------------- *)
\* x is 2^k for some integer k >= 0
IsPowerOfTwo(x) == \E k \in 0..30 : x = 2^k

\* floor(log2(x)) for x >= 1, and 0 below
FloorLog2(x) == IF x < 1 THEN 0 ELSE CHOOSE k \in 0..30 : 2^k <= x /\ x < 2^(k + 1)

MaxOf(a, b) == IF a >= b THEN a ELSE b

\* the call has ended and the caller looks at the Texture
Ended == pc \in {"returned", "thrown"}

(* ------------------------------- claims -------------------------------- *)
\* C1: a call on a fresh Texture that returns normally leaves exactly N levels,
\* N the requested mipmapsNum when it is not 0 and, for mipmapsNum = 0 and a source
\* with width, height >= 1, floor(log2(max(width, height))) + 1.
C1_LevelCount ==
    (pc = "returned" /\ calls = 1) =>
        /\ requested # 0 => Len(mipmaps) = requested
        /\ (requested = 0 /\ source.cols >= 1 /\ source.rows >= 1) =>
               Len(mipmaps) = FloorLog2(MaxOf(source.cols, source.rows)) + 1

\* a 4x2 source built with the automatic level count gives 3 levels
C1_Witness ==
    /\ pc = "returned" /\ calls = 1 /\ requested = 0
    /\ source.cols = 4 /\ source.rows = 2
    /\ Len(mipmaps) = 3

\* C2: the call ends with InvalidDimensions exactly when the resolved level count
\* is above 1 and the source width or height is not 2^k for an integer k >= 0.
C2_InvalidDimensionsIff ==
    Ended =>
        (outcome = "InvalidDimensions" <=>
            (mipmaps_num > 1 /\ ~(IsPowerOfTwo(source.cols) /\ IsPowerOfTwo(source.rows))))

\* C3: after a call that returned normally, level 0 of the Texture has the source's
\* width and height, and each further level has max(1, floor(previous / 2)) in both axes.
C3_Halving ==
    pc = "returned" =>
        /\ mipmaps[1].cols = source.cols
        /\ mipmaps[1].rows = source.rows
        /\ \A k \in 1..(Len(mipmaps) - 1) :
               /\ mipmaps[k + 1].cols = MaxOf(1, mipmaps[k].cols \div 2)
               /\ mipmaps[k + 1].rows = MaxOf(1, mipmaps[k].rows \div 2)

\* C4: after a call that threw (InvalidDimensions, or an exception of the conversion
\* or of the resize at some level), the Texture holds none of that call's levels.
C4_NoPartialPyramid ==
    pc = "thrown" => Len(mipmaps) = base

\* C5: every level the Texture holds has 4 channels of 8-bit unsigned depth, and the
\* colour conversion of a build accepts a 1-, 3- or 4-channel source.
C5_FourChannels ==
    /\ \A k \in 1..Len(mipmaps) : mipmaps[k].channels = 4 /\ mipmaps[k].depth = "8U"
    /\ (pc = "cvtColor" /\ source.channels \in {1, 3, 4} /\ source.cols >= 1 /\ source.rows >= 1)
           => ENABLED CvtColor

\* C6: after a call that returned normally for a source of width 2^a and height 2^b,
\* widthLog = a and heightLog = b, and with the automatic level count the number of
\* levels of the call is max(widthLog, heightLog) + 1.
C6_Log2Fields ==
    (pc = "returned" /\ IsPowerOfTwo(source.cols) /\ IsPowerOfTwo(source.rows)) =>
        /\ widthLog = FloorLog2(source.cols)
        /\ heightLog = FloorLog2(source.rows)
        /\ requested = 0 => mipmaps_num = MaxOf(widthLog, heightLog) + 1

\* C7: screen_to_clip_space(clip_to_screen_space(p, w, h), w, h) = p over exact
\* arithmetic, for p inside and outside [-1,1] x [-1,1] and positive w, h.
C7_RoundTrip ==
    mpc = "clip" => clip_back = clip_coordinates

\* the round trip of the point (-2, 3/2), outside the clip square, on a 3x4 screen
C7_Witness ==
    /\ mpc = "clip"
    /\ clip_coordinates = <<Rat(-2, 1), Rat(3, 2)>>
    /\ screen_width = 3 /\ screen_height = 4
    /\ clip_back = <<Rat(-2, 1), Rat(3, 2)>>

\* C8: clip_to_screen_space maps (-1, 1) to (0, 0), (1, -1) to (w, h) and (0, 0) to
\* (w/2, h/2).
C8_Corners ==
    mpc \in {"screen", "clip"} =>
        /\ clip_coordinates = <<FromInt(-1), FromInt(1)>> =>
               screen_coordinates = <<FromInt(0), FromInt(0)>>
        /\ clip_coordinates = <<FromInt(1), FromInt(-1)>> =>
               screen_coordinates = <<FromInt(screen_width), FromInt(screen_height)>>
        /\ clip_coordinates = <<FromInt(0), FromInt(0)>> =>
               screen_coordinates = <<Rat(screen_width, 2), Rat(screen_height, 2)>>

\* the corner (1, -1) mapped to the bottom-right (3, 4) of a 3x4 screen
C8_Witness ==
    /\ mpc = "screen"
    /\ clip_coordinates = <<FromInt(1), FromInt(-1)>>
    /\ screen_width = 3 /\ screen_height = 4
    /\ screen_coordinates = <<FromInt(3), FromInt(4)>>

\* C9: whatever calls were made on a Texture, its mipmaps are exactly the levels of
\* the most recent call that returned normally: as many as that call's level count,
\* level 0 that call's normalized source, widthLog and heightLog the log2 of that
\* source's width and height.
C9_NoSharedState ==
    (pc \in {"idle", "returned", "thrown"} /\ lastOk.levels > 0) =>
        /\ Len(mipmaps) = lastOk.levels
        /\ mipmaps[1] = lastOk.level0
        /\ widthLog = FloorLog2(lastOk.level0.cols)
        /\ heightLog = FloorLog2(lastOk.level0.rows)

\* C10: the halving loop of get_max_possible_mipmaps_num(width, height) has run at
\* most floor(log2(max(width, height))) times (no time for a maximum below 2), for
\* every width and height, the empty 0x0 image included.
C10_LoopBound ==
    pc \in {"gm_if", "gm_do"} =>
        gm_mipmapsNum - 1 <= FloorLog2(MaxOf(source.cols, source.rows))

(* -------------------- what the code does guarantee --------------------- *)
\* on the first call of a Texture the levels halve from the source's size ...
FreshHalving == calls = 1 => C3_Halving

\* ... and widthLog, heightLog are the log2 of a power-of-two source
FreshLog2Fields == calls = 1 => C6_Log2Fields

\* for a source with width, height >= 1 InvalidDimensions is thrown exactly as C2 says
NonEmptyInvalidDimensionsIff ==
    (Ended /\ source.cols >= 1 /\ source.rows >= 1) =>
        (outcome = "InvalidDimensions" <=>
            (mipmaps_num > 1 /\ ~(IsPowerOfTwo(source.cols) /\ IsPowerOfTwo(source.rows))))

\* an exception thrown before the level loop leaves the Texture's levels as they were
EarlyThrowKeepsLevels ==
    (pc = "thrown" /\ i = 0) => Len(mipmaps) = base

\* every stored level has 4 channels of 8-bit unsigned depth
StoredLevelsFourChannels ==
    \A k \in 1..Len(mipmaps) : mipmaps[k].channels = 4 /\ mipmaps[k].depth = "8U"

\* for max(width, height) >= 1 the loop of get_max_possible_mipmaps_num runs at most
\* floor(log2(max)) times and the level count it returns is floor(log2(max)) + 1
NonEmptyLoopBound ==
    LET m == MaxOf(source.cols, source.rows)
    IN  m >= 1 =>
            /\ pc \in {"gm_if", "gm_do"} => gm_mipmapsNum - 1 <= FloorLog2(m)
            /\ (pc = "check" /\ requested = 0) => mipmaps_num = FloorLog2(m) + 1

\* with size = 0 every pass of the do-while leads back to the do-while
ZeroSizeNeverExits ==
    [][(pc = "gm_do" /\ size = 0) => (pc' = "gm_do" /\ size' = 0)]_vars

=============================================================================
